---- MODULE Spec2Model ----
(***************************************************************************)
(* CampusCore: the students application (models.py, forms.py, views.py,    *)
(* urls.py) as a state machine.  The persisted tables are the state; every *)
(* view is an action.  A POST that passes form.is_valid() is split in two  *)
(* atomic steps, the validation (the view up to is_valid) and the write    *)
(* (form.save() and the redirect), so that the requests two workers serve  *)
(* interleave between the two.                                             *)
(*                                                                         *)
(* Text values are sequences of one-character strings, so that substring   *)
(* search, case folding and ordering are computed, not assumed.            *)
(***************************************************************************)
EXTENDS Integers, Sequences, FiniteSets

VARIABLES
    users,          \* auth User rows
    sessions,       \* the session store: the usernames with an established session
    students,       \* Student rows
    courses,        \* Course rows
    grades,         \* Grade rows
    created_order,  \* Student pks by created_at ascending
    next_pk,        \* the store's next auto-increment pk, per table
    pend,           \* the POSTs in flight: they passed is_valid() and have not saved yet
    last            \* the request handled by the last step and its response

vars == <<users, sessions, students, courses, grades, created_order, next_pk, pend, last>>

db == <<users, students, courses, grades>>

(***************************************************************************)
(* Bounds of the model.                                                    *)
(***************************************************************************)
MaxStudentPk == 2       \* Student rows ever inserted by student_create
MaxGradePk == 2         \* Grade rows ever inserted

Methods == {"GET", "POST"}

(***************************************************************************)
(* Text.                                                                   *)
(***************************************************************************)
Ord(c) ==
    CASE c = "0" -> 48 [] c = "1" -> 49 [] c = "2" -> 50 [] c = "3" -> 51
      [] c = "4" -> 52 [] c = "5" -> 53 [] c = "6" -> 54 [] c = "7" -> 55
      [] c = "8" -> 56 [] c = "9" -> 57 [] c = "-" -> 45 [] c = "@" -> 64
      [] c = "A" -> 65 [] c = "B" -> 66 [] c = "L" -> 76 [] c = "S" -> 83
      [] c = "a" -> 97 [] c = "b" -> 98 [] c = "l" -> 108 [] c = "s" -> 115
      [] c = "x" -> 120

LowerChar(c) ==
    CASE c = "A" -> "a" [] c = "B" -> "b" [] c = "L" -> "l" [] c = "S" -> "s"
      [] OTHER -> c

Lower(s) == [i \in 1..Len(s) |-> LowerChar(s[i])]

\* the ORM's field__icontains lookup: case-insensitive substring
icontains(field, term) ==
    \E i \in 0..(Len(field) - Len(term)) :
        Lower(SubSeq(field, i + 1, i + Len(term))) = Lower(term)

\* ORDER BY on a text column: lexicographic by character code
TextLess(s, t) ==
    \E i \in 1..Len(t) :
        /\ i <= Len(s) + 1
        /\ \A j \in 1..(i - 1) : s[j] = t[j]
        /\ (i = Len(s) + 1 \/ Ord(s[i]) < Ord(t[i]))

(***************************************************************************)
(* models.py: field constraints.                                           *)
(***************************************************************************)
YEAR_CHOICES == {<<"1">>, <<"2">>, <<"3">>, <<"4">>}
GRADE_CHOICES == {<<"A">>, <<"B">>, <<"C">>, <<"D">>, <<"F">>}

NameMaxLength == 50
StudentIdMaxLength == 20
CourseNameMaxLength == 100
CourseCodeMaxLength == 10

\* forms.EmailField / models.EmailField: one "@" with text on both sides
ValidEmail(e) ==
    /\ Cardinality({i \in 1..Len(e) : e[i] = "@"}) = 1
    /\ e[1] # "@"
    /\ e[Len(e)] # "@"

Blank == <<>>

\* Python's int() on the text of a request parameter
IsDigit(c) == c \in {"0", "1", "2", "3", "4", "5", "6", "7", "8", "9"}

IsInt(s) ==
    LET d == IF s # <<>> /\ s[1] = "-" THEN Tail(s) ELSE s
    IN  d # <<>> /\ \A i \in 1..Len(d) : IsDigit(d[i])

RECURSIVE DigitsVal(_)
DigitsVal(d) ==
    IF d = <<>> THEN 0
    ELSE 10 * DigitsVal(SubSeq(d, 1, Len(d) - 1)) + (Ord(d[Len(d)]) - 48)

IntOf(s) == IF s[1] = "-" THEN 0 - DigitsVal(Tail(s)) ELSE DigitsVal(s)

(***************************************************************************)
(* Requests and responses.  A request carries a session cookie (<<>> for   *)
(* none), a method, the pk of its URL, its POST form and its query string. *)
(***************************************************************************)
NoData == [students |-> <<>>, courses |-> {}, grades |-> {},
           number |-> 0, num_pages |-> 0, counts |-> <<0, 0, 0>>]

Request(handler, cookie, method, pk, form, query) ==
    [handler |-> handler, cookie |-> cookie, method |-> method, pk |-> pk,
     form |-> form, query |-> query]

\* kind: "redirect_login", "redirect", "form" (errors: the fields in error),
\* "page", "not_found", "server_error" (an exception no handler catches), and
\* "is_valid" for a POST that passed validation and has not saved yet
Response(req, kind, errors, data) ==
    [handler |-> req.handler, cookie |-> req.cookie, method |-> req.method,
     pk |-> req.pk, form |-> req.form, query |-> req.query,
     kind |-> kind, errors |-> errors, data |-> data]

Redirect(req) == Response(req, "redirect", {}, NoData)

\* (variant) a handler lacks the @login_required decorator
login_required_missing(cookie) == TRUE

\* @login_required: the request's session cookie names an established session
login_required(cookie) == cookie \in sessions

LoginRedirect(req) == Response(req, "redirect_login", {}, NoData)

Respond(r) ==
    /\ last' = r
    /\ UNCHANGED <<users, sessions, students, courses, grades, created_order, next_pk, pend>>

\* the servers run one request each
Workers == {"w1", "w2"}

\* form.is_valid() held: the request goes on to form.save().  `twin` tells a
\* request apart from an equal one already in flight.
Validated(req) ==
    /\ Cardinality(pend) < Cardinality(Workers)
    /\ pend' = pend \cup {[req |-> req, twin |-> [req |-> req, twin |-> FALSE] \in pend]}
    /\ last' = Response(req, "is_valid", {}, NoData)
    /\ UNCHANGED <<users, sessions, students, courses, grades, created_order, next_pk>>

\* the request in flight `p` has ended
Finished(p) ==
    pend' = IF [p EXCEPT !.twin = TRUE] \in pend THEN pend \ {[p EXCEPT !.twin = TRUE]}
            ELSE pend \ {p}

Pending(handler) == Cardinality({p \in pend : p.req.handler = handler})

(***************************************************************************)
(* The store: lookups and constraints (models.py).                         *)
(***************************************************************************)
StudentPks == {s.pk : s \in students}
CoursePks == {k.pk : k \in courses}

StudentByPk(pk) == CHOOSE s \in students : s.pk = pk
GradesOf(pk) == {g \in grades : g.student = pk}

\* (variant) the uniqueness check does not leave out the row being edited
student_id_unique_including_self(rows, pk, student_id) ==
    \A s \in rows : s.student_id # student_id

\* Student.student_id: unique=True, against the rows other than `pk`
student_id_unique(rows, pk, student_id) ==
    \A s \in rows : s.pk # pk => s.student_id # student_id

\* Student.email: unique=True, against the rows other than `pk`
email_unique(rows, pk, email) ==
    \A s \in rows : s.pk # pk => s.email # email

\* Course.code: unique=True
code_unique(rows, code) == \A k \in rows : k.code # code

\* (variant) Grade declares no unique_together
unique_together_missing(rows, student, course) == TRUE

\* Grade.Meta.unique_together = ['student', 'course']
unique_together(rows, student, course) ==
    \A g \in rows : ~(g.student = student /\ g.course = course)

\* Grade.student, Grade.course: foreign keys the store enforces
foreign_keys(student, course) == student \in StudentPks /\ course \in CoursePks

\* User.username: unique
username_unique(rows, username) == \A u \in rows : u.username # username

(***************************************************************************)
(* forms.py: is_valid() of each form, as the set of fields in error        *)
(* ("__all__" for a non-field error).  A ModelForm cleans each field       *)
(* (required, max_length, choices, the foreign key resolves) and then runs *)
(* the model's validate_unique() on the fields that passed.                *)
(***************************************************************************)
FieldError(name, bad) == IF bad THEN {name} ELSE {}

\* (variant) the form skips validate_unique()
StudentFormErrors_without_unique(form, pk) ==
    FieldError("student_id",
        form.student_id = Blank \/ Len(form.student_id) > StudentIdMaxLength)
    \cup FieldError("first_name",
        form.first_name = Blank \/ Len(form.first_name) > NameMaxLength)
    \cup FieldError("last_name",
        form.last_name = Blank \/ Len(form.last_name) > NameMaxLength)
    \cup FieldError("email", form.email = Blank \/ ~ValidEmail(form.email))
    \cup FieldError("year", form.year \notin YEAR_CHOICES)
    \cup FieldError("courses", ~(form.courses \subseteq CoursePks))

StudentFormErrors(form, pk) ==
    FieldError("student_id",
        \/ form.student_id = Blank
        \/ Len(form.student_id) > StudentIdMaxLength
        \/ ~student_id_unique(students, pk, form.student_id))
    \cup FieldError("first_name",
        form.first_name = Blank \/ Len(form.first_name) > NameMaxLength)
    \cup FieldError("last_name",
        form.last_name = Blank \/ Len(form.last_name) > NameMaxLength)
    \cup FieldError("email",
        \/ form.email = Blank
        \/ ~ValidEmail(form.email)
        \/ ~email_unique(students, pk, form.email))
    \cup FieldError("year", form.year \notin YEAR_CHOICES)
    \cup FieldError("courses", ~(form.courses \subseteq CoursePks))

CourseFormErrors(form) ==
    FieldError("name", form.name = Blank \/ Len(form.name) > CourseNameMaxLength)
    \cup FieldError("code",
        \/ form.code = Blank
        \/ Len(form.code) > CourseCodeMaxLength
        \/ ~code_unique(courses, form.code))
    \cup FieldError("credits", ~IsInt(form.credits))

\* Grade.marks is a plain IntegerField: the form requires an integer and nothing
\* more; min/max are attributes of the NumberInput widget only.
GradeFormErrors(form) ==
    FieldError("student", form.student \notin StudentPks)
    \cup FieldError("course", form.course \notin CoursePks)
    \cup FieldError("grade", form.grade \notin GRADE_CHOICES)
    \cup FieldError("marks", ~IsInt(form.marks))
    \cup FieldError("__all__",
        /\ form.student \in StudentPks
        /\ form.course \in CoursePks
        /\ ~unique_together(grades, form.student, form.course))

UserRegisterFormErrors(form) ==
    FieldError("username",
        form.username = Blank \/ ~username_unique(users, form.username))
    \cup FieldError("email", form.email = Blank \/ ~ValidEmail(form.email))
    \cup FieldError("password1", form.password1 = Blank)
    \cup FieldError("password2",
        form.password2 = Blank \/ form.password2 # form.password1)

(***************************************************************************)
(* The rows a valid form saves.                                            *)
(***************************************************************************)
StudentRow(pk, form) ==
    [pk |-> pk, student_id |-> form.student_id, first_name |-> form.first_name,
     last_name |-> form.last_name, email |-> form.email, year |-> form.year,
     courses |-> form.courses]

CourseRow(pk, form) ==
    [pk |-> pk, name |-> form.name, code |-> form.code, credits |-> IntOf(form.credits)]

GradeRow(pk, form) ==
    [pk |-> pk, student |-> form.student, course |-> form.course,
     grade |-> form.grade, marks |-> IntOf(form.marks)]

UserRow(form) ==
    [username |-> form.username, email |-> form.email, password |-> form.password1]

(***************************************************************************)
(* views.py: querysets and pagination.                                     *)
(***************************************************************************)
PerPage == 10
RecentCount == 5

\* ORDER BY student_id, as an insertion sort
RECURSIVE InsertById(_, _)
InsertById(s, sorted) ==
    IF sorted = <<>> THEN <<s>>
    ELSE IF TextLess(s.student_id, sorted[1].student_id) THEN <<s>> \o sorted
    ELSE <<sorted[1]>> \o InsertById(s, Tail(sorted))

\* Student.objects.all().order_by('student_id')
RECURSIVE order_by_student_id(_)
order_by_student_id(rows) ==
    IF rows = {} THEN <<>>
    ELSE LET s == CHOOSE x \in rows : TRUE
         IN  InsertById(s, order_by_student_id(rows \ {s}))

\* a request parameter is <<>> when absent and <<text>> when present;
\* `if search:` is false for an absent and for an empty one
Truthy(param) == param # <<>> /\ param[1] # Blank

\* (variant) one filter over the three fields, joined by OR
search_filter_union(list, search) ==
    SelectSeq(list, LAMBDA s : \/ icontains(s.first_name, search[1])
                               \/ icontains(s.last_name, search[1])
                               \/ icontains(s.student_id, search[1]))

\* filter(first_name__icontains) or filter(last_name__icontains) or
\* filter(student_id__icontains): Python's `or` yields its first non-empty operand
search_filter(list, search) ==
    LET term == search[1]
        by_first == SelectSeq(list, LAMBDA s : icontains(s.first_name, term))
        by_last == SelectSeq(list, LAMBDA s : icontains(s.last_name, term))
        by_id == SelectSeq(list, LAMBDA s : icontains(s.student_id, term))
    IN  IF by_first # <<>> THEN by_first
        ELSE IF by_last # <<>> THEN by_last
        ELSE by_id

student_queryset(search) ==
    IF Truthy(search) THEN search_filter(order_by_student_id(students), search)
    ELSE order_by_student_id(students)

\* (variant) the page count rounds down and adds one
num_pages_rounded_down(count) == count \div PerPage + 1

\* Paginator.num_pages (orphans = 0, allow_empty_first_page = True)
num_pages(count) ==
    IF count = 0 THEN 1 ELSE (count + PerPage - 1) \div PerPage

\* Paginator.get_page: validate_number, with PageNotAnInteger -> 1 and
\* EmptyPage -> num_pages
get_page_number(page, count) ==
    IF page = <<>> \/ ~IsInt(page[1]) THEN 1
    ELSE IF IntOf(page[1]) < 1 \/ IntOf(page[1]) > num_pages(count) THEN num_pages(count)
    ELSE IntOf(page[1])

\* Paginator.page(number).object_list
page_objects(list, number) ==
    LET bottom == (number - 1) * PerPage
        top == IF bottom + PerPage >= Len(list) THEN Len(list) ELSE bottom + PerPage
    IN  SubSeq(list, bottom + 1, top)

get_page(list, page) ==
    LET number == get_page_number(page, Len(list))
    IN  [NoData EXCEPT !.students = page_objects(list, number),
                       !.number = number,
                       !.num_pages = num_pages(Len(list))]

\* Student.objects.order_by('-created_at')[:5]
recent_students ==
    LET n == Len(created_order)
        k == IF n < RecentCount THEN n ELSE RecentCount
    IN  [i \in 1..k |-> StudentByPk(created_order[n + 1 - i])]

Remove(seq, x) == SelectSeq(seq, LAMBDA y : y # x)

(***************************************************************************)
(* views.py: the handlers, each on a request `req`.                        *)
(***************************************************************************)
register(req) ==
    IF req.method # "POST" THEN Respond(Response(req, "form", {}, NoData))
    ELSE IF UserRegisterFormErrors(req.form) # {}
    THEN Respond(Response(req, "form", UserRegisterFormErrors(req.form), NoData))
    ELSE Validated(req)

\* user = form.save(); login(request, user); redirect('student_list')
register_save(p) ==
    /\ p.req.handler = "register"
    /\ Finished(p)
    /\ IF username_unique(users, p.req.form.username)
       THEN /\ users' = users \cup {UserRow(p.req.form)}
            /\ sessions' = sessions \cup {p.req.form.username}
            /\ last' = Redirect(p.req)
       ELSE /\ last' = Response(p.req, "server_error", {}, NoData)
            /\ UNCHANGED <<users, sessions>>
    /\ UNCHANGED <<students, courses, grades, created_order, next_pk>>

dashboard(req) ==
    IF ~login_required(req.cookie) THEN Respond(LoginRedirect(req))
    ELSE Respond(Response(req, "page", {},
            [NoData EXCEPT !.students = recent_students,
                           !.counts = <<Cardinality(students), Cardinality(courses),
                                        Cardinality(grades)>>]))

student_create(req) ==
    IF ~login_required(req.cookie) THEN Respond(LoginRedirect(req))
    ELSE IF req.method # "POST"
    THEN Respond(Response(req, "form", {}, [NoData EXCEPT !.courses = courses]))
    ELSE IF StudentFormErrors(req.form, 0) # {}
    THEN Respond(Response(req, "form", StudentFormErrors(req.form, 0),
                          [NoData EXCEPT !.courses = courses]))
    ELSE /\ next_pk.student + Pending("student_create") <= MaxStudentPk
         /\ Validated(req)

\* the store accepts a Student row: both unique columns hold against the other rows
student_constraints(row) ==
    /\ student_id_unique(students, row.pk, row.student_id)
    /\ email_unique(students, row.pk, row.email)

\* form.save(): INSERT, then the m2m rows; a violated unique column raises
\* IntegrityError, which the view does not catch
student_create_save(p) ==
    /\ p.req.handler = "student_create"
    /\ Finished(p)
    /\ LET row == StudentRow(next_pk.student, p.req.form)
       IN  IF student_constraints(row)
           THEN /\ students' = students \cup {row}
                /\ created_order' = Append(created_order, row.pk)
                /\ next_pk' = [next_pk EXCEPT !.student = @ + 1]
                /\ last' = Redirect(p.req)
           ELSE /\ last' = Response(p.req, "server_error", {}, NoData)
                /\ UNCHANGED <<students, created_order, next_pk>>
    /\ UNCHANGED <<users, sessions, courses, grades>>

student_list(req) ==
    IF ~login_required(req.cookie) THEN Respond(LoginRedirect(req))
    ELSE Respond(Response(req, "page", {},
                          get_page(student_queryset(req.query.search), req.query.page)))

student_detail(req) ==
    IF ~login_required(req.cookie) THEN Respond(LoginRedirect(req))
    ELSE IF req.pk \notin StudentPks THEN Respond(Response(req, "not_found", {}, NoData))
    ELSE Respond(Response(req, "page", {},
            [NoData EXCEPT !.students = <<StudentByPk(req.pk)>>,
                           !.grades = GradesOf(req.pk)]))

student_update(req) ==
    IF ~login_required(req.cookie) THEN Respond(LoginRedirect(req))
    ELSE IF req.pk \notin StudentPks THEN Respond(Response(req, "not_found", {}, NoData))
    ELSE IF req.method # "POST"
    THEN Respond(Response(req, "form", {},
            [NoData EXCEPT !.students = <<StudentByPk(req.pk)>>, !.courses = courses]))
    ELSE IF StudentFormErrors(req.form, req.pk) # {}
    THEN Respond(Response(req, "form", StudentFormErrors(req.form, req.pk),
            [NoData EXCEPT !.students = <<StudentByPk(req.pk)>>, !.courses = courses]))
    ELSE Validated(req)

\* form.save() on an instance with a pk: UPDATE the row, or INSERT it under the
\* same pk when the UPDATE matched no row (the row was deleted meanwhile)
student_update_save(p) ==
    /\ p.req.handler = "student_update"
    /\ Finished(p)
    /\ LET row == StudentRow(p.req.pk, p.req.form)
       IN  IF student_constraints(row)
           THEN /\ students' = {s \in students : s.pk # row.pk} \cup {row}
                /\ created_order' = IF row.pk \in StudentPks THEN created_order
                                    ELSE Append(created_order, row.pk)
                /\ last' = Redirect(p.req)
           ELSE /\ last' = Response(p.req, "server_error", {}, NoData)
                /\ UNCHANGED <<students, created_order>>
    /\ UNCHANGED <<users, sessions, courses, grades, next_pk>>

\* (variant) Grade.student is declared on_delete=DO_NOTHING
cascade_delete_student_only(pk) ==
    /\ students' = {s \in students : s.pk # pk}
    /\ grades' = grades
    /\ created_order' = SelectSeq(created_order, LAMBDA y : y # pk)

\* student.delete() with on_delete=CASCADE on Grade.student
cascade_delete(pk) ==
    /\ students' = {s \in students : s.pk # pk}
    /\ grades' = {g \in grades : g.student # pk}
    /\ created_order' = Remove(created_order, pk)

\* (variant) the handler deletes whatever the method
student_delete_on_any_method(req) ==
    IF ~login_required(req.cookie) THEN Respond(LoginRedirect(req))
    ELSE IF req.pk \notin StudentPks THEN Respond(Response(req, "not_found", {}, NoData))
    ELSE /\ cascade_delete(req.pk)
         /\ last' = Redirect(req)
         /\ UNCHANGED <<users, sessions, courses, next_pk, pend>>

student_delete(req) ==
    IF ~login_required(req.cookie) THEN Respond(LoginRedirect(req))
    ELSE IF req.pk \notin StudentPks THEN Respond(Response(req, "not_found", {}, NoData))
    ELSE IF req.method = "POST"
    THEN /\ cascade_delete(req.pk)
         /\ last' = Redirect(req)
         /\ UNCHANGED <<users, sessions, courses, next_pk, pend>>
    ELSE Respond(Response(req, "page", {},
            [NoData EXCEPT !.students = <<StudentByPk(req.pk)>>]))

course_list(req) ==
    IF ~login_required(req.cookie) THEN Respond(LoginRedirect(req))
    ELSE Respond(Response(req, "page", {}, [NoData EXCEPT !.courses = courses]))

course_create(req) ==
    IF ~login_required(req.cookie) THEN Respond(LoginRedirect(req))
    ELSE IF req.method # "POST" THEN Respond(Response(req, "form", {}, NoData))
    ELSE IF CourseFormErrors(req.form) # {}
    THEN Respond(Response(req, "form", CourseFormErrors(req.form), NoData))
    ELSE Validated(req)

course_create_save(p) ==
    /\ p.req.handler = "course_create"
    /\ Finished(p)
    /\ IF code_unique(courses, p.req.form.code)
       THEN /\ courses' = courses \cup {CourseRow(next_pk.course, p.req.form)}
            /\ next_pk' = [next_pk EXCEPT !.course = @ + 1]
            /\ last' = Redirect(p.req)
       ELSE /\ last' = Response(p.req, "server_error", {}, NoData)
            /\ UNCHANGED <<courses, next_pk>>
    /\ UNCHANGED <<users, sessions, students, grades, created_order>>

\* the GET form and a re-rendered form list every student and course as choices
grade_choices ==
    [NoData EXCEPT !.students = order_by_student_id(students), !.courses = courses]

grade_create(req) ==
    IF ~login_required(req.cookie) THEN Respond(LoginRedirect(req))
    ELSE IF req.method # "POST" THEN Respond(Response(req, "form", {}, grade_choices))
    ELSE IF GradeFormErrors(req.form) # {}
    THEN Respond(Response(req, "form", GradeFormErrors(req.form), grade_choices))
    ELSE /\ next_pk.grade + Pending("grade_create") <= MaxGradePk
         /\ Validated(req)

\* the store accepts a Grade row: the pair is new and both foreign keys resolve
grade_constraints(form) ==
    /\ unique_together(grades, form.student, form.course)
    /\ foreign_keys(form.student, form.course)

\* form.save(): INSERT; a violated constraint raises IntegrityError, which
\* grade_create does not catch
grade_create_save(p) ==
    /\ p.req.handler = "grade_create"
    /\ Finished(p)
    /\ IF grade_constraints(p.req.form)
       THEN /\ grades' = grades \cup {GradeRow(next_pk.grade, p.req.form)}
            /\ next_pk' = [next_pk EXCEPT !.grade = @ + 1]
            /\ last' = Redirect(p.req)
       ELSE /\ last' = Response(p.req, "server_error", {}, NoData)
            /\ UNCHANGED <<grades, next_pk>>
    /\ UNCHANGED <<users, sessions, students, courses, created_order>>

(***************************************************************************)
(* The requests the specifications send.                                   *)
(***************************************************************************)
NoCookie == <<>>
NoForm == <<>>
NoQuery == [search |-> <<>>, page |-> <<>>]
UserA == <<"a">>

S1 == <<"S", "1">>
S2 == <<"S", "2">>
E1 == <<"a", "@", "x">>
E2 == <<"b", "@", "x">>

GoodStudentForm ==
    [student_id |-> S1, first_name |-> <<"A", "l">>, last_name |-> <<"B", "a">>,
     email |-> E1, year |-> <<"2">>, courses |-> {}]

\* forms that pass the field checks; whether they pass is_valid() depends on the rows
ValidStudentForms ==
    {GoodStudentForm,
     [GoodStudentForm EXCEPT !.email = E2],
     [GoodStudentForm EXCEPT !.student_id = S2]}

StudentForms ==
    ValidStudentForms
    \cup {[GoodStudentForm EXCEPT !.student_id = Blank],
          [GoodStudentForm EXCEPT !.first_name = Blank],
          [GoodStudentForm EXCEPT !.email = <<"a">>],
          [GoodStudentForm EXCEPT !.year = <<"5">>],
          [GoodStudentForm EXCEPT !.courses = {1}]}

GoodCourseForm == [name |-> <<"x">>, code |-> <<"A", "1">>, credits |-> <<"3">>]

ValidCourseForms == {GoodCourseForm, [GoodCourseForm EXCEPT !.code = <<"B", "2">>]}

CourseForms ==
    ValidCourseForms
    \cup {[GoodCourseForm EXCEPT !.code = Blank],
          [GoodCourseForm EXCEPT !.name = Blank],
          [GoodCourseForm EXCEPT !.credits = <<"x">>]}

GoodGradeForm == [student |-> 1, course |-> 1, grade |-> <<"A">>, marks |-> <<"5", "0">>]

ValidGradeForms ==
    [student : 1..MaxStudentPk, course : {1}, grade : {<<"A">>}, marks : {<<"5", "0">>}]
    \cup {[GoodGradeForm EXCEPT !.marks = <<"1", "0", "1">>],
          [GoodGradeForm EXCEPT !.marks = <<"-", "1">>]}

\* the grades two requests in flight compete for
ConcurrentGradeForms ==
    [student : 1..MaxStudentPk, course : {1}, grade : {<<"A">>},
     marks : {<<"5", "0">>, <<"1", "0", "1">>}]
    \cup {[GoodGradeForm EXCEPT !.marks = <<"-", "1">>]}

OtherStudentForm == [GoodStudentForm EXCEPT !.student_id = S2, !.email = E2]

GradeForms ==
    ValidGradeForms
    \cup {[GoodGradeForm EXCEPT !.grade = <<"x">>],
          [GoodGradeForm EXCEPT !.grade = Blank],
          [GoodGradeForm EXCEPT !.marks = <<"x">>],
          [GoodGradeForm EXCEPT !.student = 0]}

GoodUserForm ==
    [username |-> UserA, email |-> E1, password1 |-> <<"x">>, password2 |-> <<"x">>]

UserForms ==
    {GoodUserForm,
     [GoodUserForm EXCEPT !.username = Blank],
     [GoodUserForm EXCEPT !.email = <<"a">>],
     [GoodUserForm EXCEPT !.password2 = <<"b">>]}

UrlPks == 1..(MaxStudentPk + 1)

\* POSTs of a logged-in client
Posts(handler, pks, forms) ==
    {Request(handler, UserA, "POST", pk, form, NoQuery) : pk \in pks, form \in forms}

\* GETs of a logged-in client
Gets(handler, pks) == {Request(handler, UserA, "GET", pk, NoForm, NoQuery) : pk \in pks}

\* GETs and POSTs that carry no session
Anonymous(handler, pks, form) ==
    {Request(handler, NoCookie, "GET", pk, NoForm, NoQuery) : pk \in pks}
    \cup {Request(handler, NoCookie, "POST", pk, form, NoQuery) : pk \in pks}

Lists(searches, pages) ==
    {Request("student_list", UserA, "GET", 0, NoForm, [search |-> s, page |-> p]) :
        s \in searches, p \in pages}

(***************************************************************************)
(* Spec: an empty store, then the writing requests of a logged-in client,  *)
(* two in flight at a time.                                                *)
(***************************************************************************)
Init ==
    /\ users = {}
    /\ sessions = {}
    /\ students = {}
    /\ courses = {}
    /\ grades = {}
    /\ created_order = <<>>
    /\ next_pk = [student |-> 1, course |-> 1, grade |-> 1]
    /\ pend = {}
    /\ last = Response(Request("none", NoCookie, "GET", 0, NoForm, NoQuery), "none", {}, NoData)

Next ==
    \/ register(Request("register", NoCookie, "POST", 0, GoodUserForm, NoQuery))
    \/ \E p \in pend : register_save(p)
    \/ \E req \in Posts("student_create", {0}, {GoodStudentForm, OtherStudentForm}) :
            student_create(req)
    \/ \E p \in pend : student_create_save(p)
    \/ \E req \in Posts("student_update", 1..MaxStudentPk, {GoodStudentForm}) :
            student_update(req)
    \/ \E p \in pend : student_update_save(p)
    \/ \E req \in Posts("student_delete", 1..MaxStudentPk, {NoForm}) : student_delete(req)
    \/ \E req \in Posts("course_create", {0}, {GoodCourseForm}) : course_create(req)
    \/ \E p \in pend : course_create_save(p)
    \/ \E req \in Posts("grade_create", {0}, ConcurrentGradeForms) : grade_create(req)
    \/ \E p \in pend : grade_create_save(p)

Spec == Init /\ [][Next]_vars

(***************************************************************************)
(* SpecSequential: every handler, with and without a session, GET and      *)
(* POST, valid and invalid forms; one request at a time.                   *)
(***************************************************************************)
NextSequential ==
    \/ /\ pend = {}
       /\ \E req \in Gets("register", {0}) \cup Posts("register", {0}, UserForms)
                     \cup Anonymous("register", {0}, GoodUserForm) : register(req)
    \/ \E p \in pend : register_save(p)
    \/ /\ pend = {}
       /\ \E req \in Gets("dashboard", {0}) \cup Anonymous("dashboard", {0}, NoForm) :
            dashboard(req)
    \/ /\ pend = {}
       /\ \E req \in Lists({<<>>, <<<<"a">>>>}, {<<>>, <<<<"2">>>>})
                     \cup Anonymous("student_list", {0}, NoForm) : student_list(req)
    \/ /\ pend = {}
       /\ \E req \in Gets("student_detail", UrlPks)
                     \cup Anonymous("student_detail", {1}, NoForm) : student_detail(req)
    \/ /\ pend = {}
       /\ \E req \in Gets("student_create", {0}) \cup Posts("student_create", {0}, StudentForms)
                     \cup Anonymous("student_create", {0}, GoodStudentForm) :
            student_create(req)
    \/ \E p \in pend : student_create_save(p)
    \/ /\ pend = {}
       /\ \E req \in Gets("student_update", UrlPks)
                     \cup Posts("student_update", UrlPks, ValidStudentForms)
                     \cup Posts("student_update", {1}, StudentForms)
                     \cup Anonymous("student_update", {1}, GoodStudentForm) :
            student_update(req)
    \/ \E p \in pend : student_update_save(p)
    \/ /\ pend = {}
       /\ \E req \in Gets("student_delete", UrlPks) \cup Posts("student_delete", UrlPks, {NoForm})
                     \cup Anonymous("student_delete", {1}, NoForm) : student_delete(req)
    \/ /\ pend = {}
       /\ \E req \in Gets("course_list", {0}) \cup Anonymous("course_list", {0}, NoForm) :
            course_list(req)
    \/ /\ pend = {}
       /\ \E req \in Gets("course_create", {0}) \cup Posts("course_create", {0}, CourseForms)
                     \cup Anonymous("course_create", {0}, GoodCourseForm) :
            course_create(req)
    \/ \E p \in pend : course_create_save(p)
    \/ /\ pend = {}
       /\ \E req \in Gets("grade_create", {0}) \cup Posts("grade_create", {0}, GradeForms)
                     \cup Anonymous("grade_create", {0}, GoodGradeForm) : grade_create(req)
    \/ \E p \in pend : grade_create_save(p)

SpecSequential == Init /\ [][NextSequential]_vars

(***************************************************************************)
(* SpecList: student_list on stores of 0..MaxListStudents students.  The   *)
(* i-th student created has student_id "S" and the two digits of 40 - i    *)
(* (so the order by student_id is not the order of creation), first name   *)
(* "Al" or "Bb" and last name "Al" or "Sx".                                *)
(***************************************************************************)
MaxListStudents == 25

Digit(n) == <<"0", "1", "2", "3", "4", "5", "6", "7", "8", "9">>[n + 1]

ListStudent(i) ==
    [pk |-> i,
     student_id |-> <<"S", Digit((40 - i) \div 10), Digit((40 - i) % 10)>>,
     first_name |-> IF i % 2 = 1 THEN <<"A", "l">> ELSE <<"B", "b">>,
     last_name |-> IF i % 3 = 0 THEN <<"A", "l">> ELSE <<"S", "x">>,
     email |-> <<"s", Digit((40 - i) \div 10), Digit((40 - i) % 10), "@", "x">>,
     year |-> <<"2">>,
     courses |-> {}]

ListSearches ==
    {<<>>, <<Blank>>, <<<<"a", "l">>>>, <<<<"A", "L">>>>, <<<<"s", "x">>>>,
     <<<<"s", "3">>>>, <<<<"x", "1">>>>}

ListPages ==
    {<<>>, <<Blank>>, <<<<"x">>>>, <<<<"0">>>>, <<<<"-", "1">>>>, <<<<"1">>>>,
     <<<<"2">>>>, <<<<"3">>>>, <<<<"9", "9">>>>}

\* around each page boundary, up to the bound
ListSizes == {0, 1, 9, 10, 11, 19, 20, 21, MaxListStudents}

InitList ==
    /\ users = {UserRow(GoodUserForm)}
    /\ sessions = {UserA}
    /\ \E n \in ListSizes :
        /\ students = {ListStudent(i) : i \in 1..n}
        /\ created_order = [i \in 1..n |-> i]
        /\ next_pk = [student |-> n + 1, course |-> 1, grade |-> 1]
    /\ courses = {}
    /\ grades = {}
    /\ pend = {}
    /\ last = Response(Request("none", NoCookie, "GET", 0, NoForm, NoQuery), "none", {}, NoData)

NextList ==
    \E req \in Lists(ListSearches, ListPages) : student_list(req)

SpecList == InitList /\ [][NextList]_vars

(***************************************************************************)
(* The properties.                                                         *)
(***************************************************************************)
\* a step that answers a request without touching the store, the sessions or
\* the requests in flight
StoreUnchanged ==
    UNCHANGED <<users, sessions, students, courses, grades, created_order, next_pk, pend>>

HasGrade(student, course) ==
    \E g \in grades : g.student = student /\ g.course = course

OneGradePerPair ==
    \A g, h \in grades : (g.student = h.student /\ g.course = h.course) => g = h

\* a step of grade_create (its validation or its save) on a POST for a pair
\* that has a Grade already
GradePostForExistingPair ==
    /\ last'.handler = "grade_create"
    /\ last'.method = "POST"
    /\ last'.cookie \in sessions
    /\ HasGrade(last'.form.student, last'.form.course)

\* C1: in every reachable state of the interleaved requests there is at most one
\* Grade for each (student, course) pair, and a grade_create POST for a pair that
\* already has a Grade adds no row and leaves every existing Grade as it was.
C1_OneGradePerPair ==
    /\ []OneGradePerPair
    /\ [][GradePostForExistingPair => grades' = grades]_vars

\* C1 witness: a grade_create POST for a pair that has a Grade, with other marks,
\* was turned down; the store holds a Grade for each of two students.
C1_Witness ==
    /\ last.handler = "grade_create"
    /\ last.method = "POST"
    /\ last.kind \in {"form", "server_error"}
    /\ Cardinality(grades) = 2
    /\ \E g \in grades :
        /\ g.student = last.form.student
        /\ g.course = last.form.course
        /\ g.marks # IntOf(last.form.marks)

\* a step of student_delete on a POST, with a session, for a student that exists
ConfirmedDelete ==
    /\ last'.handler = "student_delete"
    /\ last'.method = "POST"
    /\ last'.cookie \in sessions
    /\ last'.pk \in StudentPks

\* C2: a confirmed student_delete of an existing student s removes s and every
\* Grade of s, leaves every other Student, every Course and every other Grade
\* unchanged, and afterwards no Grade references a missing Student.
C2_DeleteCascades ==
    [][ConfirmedDelete =>
        /\ students' = {s \in students : s.pk # last'.pk}
        /\ grades' = {g \in grades : g.student # last'.pk}
        /\ courses' = courses
        /\ \A g \in grades' : \E s \in students' : s.pk = g.student]_vars

\* C2 witness: a delete went through, it took a Grade with it (two were inserted,
\* one is left) and the other student keeps theirs.
C2_Witness ==
    /\ last.handler = "student_delete"
    /\ last.kind = "redirect"
    /\ next_pk.grade = 3
    /\ Cardinality(grades) = 1
    /\ Cardinality(students) = 1
    /\ \A g \in grades : g.student \in StudentPks /\ g.student # last.pk

ProtectedHandlers ==
    {"dashboard", "student_list", "student_detail", "student_create", "student_update",
     "student_delete", "course_list", "course_create", "grade_create"}

\* C3: a GET or POST to any handler but register, made without an established
\* session, is answered by the redirect to the login page, with no data, and
\* changes nothing.
C3_LoginRequired ==
    [][(last'.handler \in ProtectedHandlers /\ last'.cookie \notin sessions) =>
        /\ last'.kind = "redirect_login"
        /\ last'.data = NoData
        /\ StoreUnchanged]_vars

\* C3 witness: a POST to delete a student that exists and has a Grade, sent
\* without a session, was redirected.
C3_Witness ==
    /\ last.handler = "student_delete"
    /\ last.method = "POST"
    /\ last.cookie = NoCookie
    /\ last.kind = "redirect_login"
    /\ last.pk \in StudentPks
    /\ GradesOf(last.pk) # {}

\* the ways a form can fail validation
BadStudentForm(form, pk) ==
    \/ Blank \in {form.student_id, form.first_name, form.last_name, form.email}
    \/ form.year \notin YEAR_CHOICES
    \/ ~ValidEmail(form.email)
    \/ ~(form.courses \subseteq CoursePks)
    \/ \E s \in students :
        s.pk # pk /\ (s.student_id = form.student_id \/ s.email = form.email)

BadCourseForm(form) ==
    \/ Blank \in {form.name, form.code, form.credits}
    \/ ~IsInt(form.credits)
    \/ \E k \in courses : k.code = form.code

BadGradeForm(form) ==
    \/ form.grade \notin GRADE_CHOICES
    \/ ~IsInt(form.marks)
    \/ form.student \notin StudentPks
    \/ form.course \notin CoursePks

BadUserForm(form) ==
    \/ Blank \in {form.username, form.email, form.password1, form.password2}
    \/ form.password1 # form.password2
    \/ ~ValidEmail(form.email)
    \/ \E u \in users : u.username = form.username

\* a step on a POST whose form fails validation
InvalidPost ==
    /\ last'.method = "POST"
    /\ \/ last'.handler = "register" /\ BadUserForm(last'.form)
       \/ /\ last'.cookie \in sessions
          /\ \/ last'.handler = "student_create" /\ BadStudentForm(last'.form, 0)
             \/ /\ last'.handler = "student_update"
                /\ last'.pk \in StudentPks
                /\ BadStudentForm(last'.form, last'.pk)
             \/ last'.handler = "course_create" /\ BadCourseForm(last'.form)
             \/ last'.handler = "grade_create" /\ BadGradeForm(last'.form)

\* C4: a POST to student_create, student_update, course_create, grade_create or
\* register whose input fails validation re-renders the form with errors and
\* leaves every Student, Course, Grade and account as it was.
C4_InvalidPostChangesNothing ==
    [][InvalidPost =>
        /\ last'.kind = "form"
        /\ last'.errors # {}
        /\ StoreUnchanged]_vars

\* C4 witness: a student_create POST with the student_id of an existing student
\* and another email was re-rendered with an error on student_id.
C4_Witness ==
    /\ last.handler = "student_create"
    /\ last.method = "POST"
    /\ last.kind = "form"
    /\ "student_id" \in last.errors
    /\ \E s \in students :
        s.student_id = last.form.student_id /\ s.email # last.form.email

UniqueColumns ==
    /\ \A s, t \in students :
        s.pk # t.pk => (s.student_id # t.student_id /\ s.email # t.email)
    /\ \A k, l \in courses : k.pk # l.pk => k.code # l.code

\* a student_update POST that submits the student's own student_id and email
OwnValuesResubmitted ==
    /\ last'.handler = "student_update"
    /\ last'.method = "POST"
    /\ last'.cookie \in sessions
    /\ \E s \in students :
        /\ s.pk = last'.pk
        /\ s.student_id = last'.form.student_id
        /\ s.email = last'.form.email

\* C5: in every reachable state no two Students share a student_id or an email
\* and no two Courses share a code; a student_update that re-submits the
\* student's own student_id and email is not rejected as a duplicate.
C5_UniqueColumns ==
    /\ []UniqueColumns
    /\ [][OwnValuesResubmitted =>
            /\ last'.errors \cap {"student_id", "email"} = {}
            /\ last'.kind # "server_error"]_vars

\* C5 witness: with two students and two courses stored, a student_update that
\* submits the student's own student_id and email passed validation.
C5_Witness ==
    /\ last.handler = "student_update"
    /\ last.kind = "is_valid"
    /\ Cardinality(students) = 2
    /\ Cardinality(courses) = 2
    /\ \E s \in students :
        /\ s.pk = last.pk
        /\ s.student_id = last.form.student_id
        /\ s.email = last.form.email

\* C6 (as claimed): every persisted Grade has marks in 0..100.
C6_MarksInRange == \A g \in grades : g.marks \in 0..100

\* C7 (as claimed): a grade_create POST for a pair that has a Grade already ends
\* with the form re-rendered with an error, also when the other Grade was saved
\* between this request's validation and its save.
C7_DuplicateIsAFormError ==
    [][GradePostForExistingPair => (last'.kind = "form" /\ last'.errors # {})]_vars

\* C8: student_delete changes nothing on a GET (a GET for an existing student
\* shows the confirmation page); it removes a student only on a POST for that
\* student's pk; a request for a pk that does not exist is answered not-found
\* and changes nothing.
C8_DeleteOnlyOnPost ==
    [][last'.handler = "student_delete" =>
        /\ last'.method = "GET" => StoreUnchanged
        /\ (last'.method = "GET" /\ last'.cookie \in sessions /\ last'.pk \in StudentPks)
            => (last'.kind = "page" /\ last'.data.students = <<StudentByPk(last'.pk)>>)
        /\ (last'.cookie \in sessions /\ last'.pk \notin StudentPks)
            => (last'.kind = "not_found" /\ StoreUnchanged)
        /\ \A s \in students \ students' : last'.method = "POST" /\ last'.pk = s.pk]_vars

\* C8 witness: the confirmation page was shown for a student that has a Grade.
C8_Witness ==
    /\ last.handler = "student_delete"
    /\ last.method = "GET"
    /\ last.kind = "page"
    /\ last.pk \in StudentPks
    /\ GradesOf(last.pk) # {}

\* the least number of pages of 10 that hold n records, and at least one
PagesFor(n) ==
    IF n = 0 THEN 1 ELSE CHOOSE k \in 1..n : k * 10 >= n /\ (k - 1) * 10 < n

Ascending(list) ==
    \A i, j \in 1..Len(list) :
        i < j => TextLess(list[i].student_id, list[j].student_id)

\* C9: student_list splits the (filtered) students, ascending by student_id, in
\* pages of at most 10: ceil(n/10) pages, 3 for 25 students, one for none; for
\* every page parameter it answers with a page: the first for an absent or
\* non-numeric one, the last for one out of range, the page asked for otherwise.
C9_Pagination ==
    (last.handler = "student_list" /\ last.cookie \in sessions) =>
        LET list == student_queryset(last.query.search)
            n == Len(list)
            page == last.query.page
            number == last.data.number
            numeric == page # <<>> /\ IsInt(page[1])
        IN  /\ last.kind = "page"
            /\ ~Truthy(last.query.search) => n = Cardinality(students)
            /\ last.data.num_pages = PagesFor(n)
            /\ n = 25 => last.data.num_pages = 3
            /\ number \in 1..PagesFor(n)
            /\ ~numeric => number = 1
            /\ (numeric /\ IntOf(page[1]) \in 1..PagesFor(n)) => number = IntOf(page[1])
            /\ (numeric /\ IntOf(page[1]) \notin 1..PagesFor(n)) => number = PagesFor(n)
            /\ Len(last.data.students) <= 10
            /\ Len(last.data.students) =
                    IF number < PagesFor(n) THEN 10 ELSE n - (number - 1) * 10
            /\ \A i \in 1..Len(last.data.students) :
                    last.data.students[i] = list[(number - 1) * 10 + i]
            /\ Ascending(last.data.students)

\* C9 witness: 25 students, no search, page 99: the third and last page, of 5.
C9_Witness ==
    /\ last.handler = "student_list"
    /\ last.query = [search |-> <<>>, page |-> <<<<"9", "9">>>>]
    /\ Cardinality(students) = 25
    /\ last.data.number = 3
    /\ last.data.num_pages = 3
    /\ Len(last.data.students) = 5

MatchFirstName(term) == {s \in students : icontains(s.first_name, term)}
MatchLastName(term) == {s \in students : icontains(s.last_name, term)}
MatchStudentId(term) == {s \in students : icontains(s.student_id, term)}

\* the students the claim says a search paginates
Searched(search) ==
    IF search = <<>> \/ search[1] = Blank THEN students
    ELSE IF MatchFirstName(search[1]) # {} THEN MatchFirstName(search[1])
    ELSE IF MatchLastName(search[1]) # {} THEN MatchLastName(search[1])
    ELSE MatchStudentId(search[1])

====
